---- MODULE Spec2Model ----
(***************************************************************************)
(* QMD search modal (src/main.ts): the search session of QmdSearchModal,   *)
(* its child-process handlers, the JSON recovery pipeline and the          *)
(* selection state.                                                        *)
(*                                                                         *)
(* Text is a sequence of UTF-16 code units (integers), so that indexOf,    *)
(* slice, trim, sanitizeJson and JSON.parse are computed character by      *)
(* character as the code computes them.                                    *)
(***************************************************************************)
EXTENDS Integers, Sequences, FiniteSets, TLC

(* ------------------------------------------------------------------ *)
(* Character codes the source names in literals                        *)
(* ------------------------------------------------------------------ *)
QUOTE == 34
BACKSLASH == 92
LBRACKET == 91
RBRACKET == 93
LF == 10
CR == 13
TAB == 9
CTRL_LIMIT == 32

(* Codes JSON.parse gives a meaning to (ECMA-404), used by JSONParse.  *)
SPACE == 32
COMMA == 44
COLON == 58
LBRACE == 123
RBRACE == 125
MINUS == 45
PLUS == 43
DOT == 46
SLASH == 47
BS == 8
FF == 12

(* ------------------------------------------------------------------ *)
(* String primitives of the runtime                                    *)
(* ------------------------------------------------------------------ *)

\* String.prototype.indexOf(ch): 0-based index of the first ch, or -1.
RECURSIVE IndexFrom(_, _, _)
IndexFrom(s, ch, i) ==
    IF i > Len(s) THEN -1
    ELSE IF s[i] = ch THEN i - 1
    ELSE IndexFrom(s, ch, i + 1)

IndexOf(s, ch) ==
    IndexFrom(s, ch, 1)

\* String.prototype.lastIndexOf(ch): 0-based index of the last ch, or -1.
RECURSIVE LastIndexFrom(_, _, _)
LastIndexFrom(s, ch, i) ==
    IF i < 1 THEN -1
    ELSE IF s[i] = ch THEN i - 1
    ELSE LastIndexFrom(s, ch, i - 1)

LastIndexOf(s, ch) ==
    LastIndexFrom(s, ch, Len(s))

\* String.prototype.slice(start, end) for 0 <= start: the code units at the
\* 0-based positions start .. end-1, empty when end <= start.
Slice(s, start, end) ==
    LET e == IF end > Len(s) THEN Len(s) ELSE end
    IN  IF e <= start THEN << >> ELSE SubSeq(s, start + 1, e)

\* WhiteSpace and LineTerminator code units String.prototype.trim removes.
IsTrimSpace(c) ==
    c \in {9, 10, 11, 12, 13, 32, 160, 5760, 8232, 8233, 8239, 8287, 12288, 65279}
      \cup (8192 .. 8202)

RECURSIVE TrimStart(_)
TrimStart(s) ==
    IF s = << >> THEN s
    ELSE IF IsTrimSpace(Head(s)) THEN TrimStart(Tail(s))
    ELSE s

RECURSIVE TrimEnd(_)
TrimEnd(s) ==
    IF s = << >> THEN s
    ELSE IF IsTrimSpace(s[Len(s)]) THEN TrimEnd(SubSeq(s, 1, Len(s) - 1))
    ELSE s

Trim(s) ==
    TrimEnd(TrimStart(s))

\* Buffer.concat(chunks).toString("utf-8") on chunks of 7-bit bytes: every
\* byte below 0x80 decodes to the code unit of the same number.
RECURSIVE ConcatChunks(_)
ConcatChunks(chunks) ==
    IF chunks = << >> THEN << >>
    ELSE Head(chunks) \o ConcatChunks(Tail(chunks))

(* ------------------------------------------------------------------ *)
(* sanitizeJson                                                        *)
(* ------------------------------------------------------------------ *)

\* Number.prototype.toString(16) of one hex digit, as a code unit.
HexDigitChar(d) ==
    IF d < 10 THEN 48 + d ELSE 87 + d

\* UnicodeEscape with padStart(2, "0"): two hex digits after the u.
UnicodeEscape_Pad2(code) ==
    << BACKSLASH, 117, HexDigitChar(code \div 16), HexDigitChar(code % 16) >>

\* "\\u" + code.toString(16).padStart(4, "0") for a code below 0x20.
UnicodeEscape(code) ==
    << BACKSLASH, 117, 48, 48, HexDigitChar(code \div 16), HexDigitChar(code % 16) >>

\* The switch of sanitizeJson on a control character inside a string.
EscapeControl(ch) ==
    IF ch = LF THEN << BACKSLASH, 110 >>
    ELSE IF ch = CR THEN << BACKSLASH, 114 >>
    ELSE IF ch = TAB THEN << BACKSLASH, 116 >>
    ELSE UnicodeEscape(ch)

\* One iteration of the while loop of sanitizeJson at the 0-based index i,
\* inside a string literal iff inString: the index and the flag after it,
\* and what it pushes onto out.
SanitizeStep(raw, i, inString) ==
    LET ch == raw[i + 1]
    IN  IF inString
        THEN IF ch = BACKSLASH
             THEN [i |-> i + 2, inString |-> TRUE,
                   out |-> IF i + 1 < Len(raw) THEN << ch, raw[i + 2] >> ELSE << ch >>]
             ELSE IF ch = QUOTE
             THEN [i |-> i + 1, inString |-> FALSE, out |-> << ch >>]
             ELSE IF ch < CTRL_LIMIT
             THEN [i |-> i + 1, inString |-> TRUE, out |-> EscapeControl(ch)]
             ELSE [i |-> i + 1, inString |-> TRUE, out |-> << ch >>]
        ELSE [i |-> i + 1, inString |-> (ch = QUOTE), out |-> << ch >>]

\* The iterations of the while loop that start at an index below end
\* (end <= raw.length), entered at index i: the iterations below the
\* midpoint, then the rest from where those stopped.
RECURSIVE SanitizeLoop(_, _, _, _)
SanitizeLoop(raw, i, end, inString) ==
    IF i >= end THEN [i |-> i, inString |-> inString, out |-> << >>]
    ELSE IF end - i = 1 THEN SanitizeStep(raw, i, inString)
    ELSE LET left == SanitizeLoop(raw, i, (i + end) \div 2, inString)
             right == SanitizeLoop(raw, left.i, end, left.inString)
         IN  [i |-> right.i, inString |-> right.inString,
              out |-> left.out \o right.out]

\* out.join("") after the loop has run from index 0 outside any string.
sanitizeJson(raw) ==
    SanitizeLoop(raw, 0, Len(raw), FALSE).out

(* ------------------------------------------------------------------ *)
(* JSON.parse (ECMA-404 grammar)                                       *)
(*                                                                     *)
(* A parsed value is a record [t, s, a]: t is "s" (string, s its code  *)
(* units), "n" (number, s its literal), "l" (true/false/null, s its    *)
(* literal), "a" (array, a its elements) or "o" (object, a its keys    *)
(* and values alternating).  Positions are 1-based.                    *)
(* ------------------------------------------------------------------ *)
StrVal(s) ==
    [t |-> "s", s |-> s, a |-> << >>]

NumVal(s) ==
    [t |-> "n", s |-> s, a |-> << >>]

LitVal(s) ==
    [t |-> "l", s |-> s, a |-> << >>]

ArrVal(a) ==
    [t |-> "a", s |-> << >>, a |-> a]

ObjVal(a) ==
    [t |-> "o", s |-> << >>, a |-> a]

PFail ==
    [ok |-> FALSE, pos |-> 0, val |-> LitVal(<< >>)]

POk(p, v) ==
    [ok |-> TRUE, pos |-> p, val |-> v]

IsJsonWs(c) ==
    c \in {SPACE, TAB, LF, CR}

IsDigit(c) ==
    c \in 48 .. 57

HexVal(c) ==
    IF c \in 48 .. 57 THEN c - 48
    ELSE IF c \in 97 .. 102 THEN c - 87
    ELSE IF c \in 65 .. 70 THEN c - 55
    ELSE -1

\* The character a two-character escape stands for, or -1.
SimpleEscape(e) ==
    IF e = QUOTE THEN QUOTE
    ELSE IF e = BACKSLASH THEN BACKSLASH
    ELSE IF e = SLASH THEN SLASH
    ELSE IF e = 98 THEN BS
    ELSE IF e = 102 THEN FF
    ELSE IF e = 110 THEN LF
    ELSE IF e = 114 THEN CR
    ELSE IF e = 116 THEN TAB
    ELSE -1

RECURSIVE SkipWs(_, _)
SkipWs(s, i) ==
    IF i <= Len(s) /\ IsJsonWs(s[i]) THEN SkipWs(s, i + 1) ELSE i

RECURSIVE SkipDigits(_, _)
SkipDigits(s, i) ==
    IF i <= Len(s) /\ IsDigit(s[i]) THEN SkipDigits(s, i + 1) ELSE i

DigitAt(s, i) ==
    i <= Len(s) /\ IsDigit(s[i])

Matches(s, i, lit) ==
    i + Len(lit) - 1 <= Len(s) /\ SubSeq(s, i, i + Len(lit) - 1) = lit

\* The characters of a string after its opening quote, from position i.
\* JSON.parse rejects a control character in a string (ctl = FALSE); ctl =
\* TRUE reads it as itself.
RECURSIVE ParseStringBody(_, _, _, _)
ParseStringBody(s, i, acc, ctl) ==
    IF i > Len(s) THEN PFail
    ELSE IF s[i] = QUOTE THEN POk(i + 1, StrVal(acc))
    ELSE IF s[i] = BACKSLASH
    THEN IF i + 1 > Len(s) THEN PFail
         ELSE IF SimpleEscape(s[i + 1]) >= 0
         THEN ParseStringBody(s, i + 2, Append(acc, SimpleEscape(s[i + 1])), ctl)
         ELSE IF s[i + 1] = 117 /\ i + 5 <= Len(s)
                 /\ \A k \in 2 .. 5 : HexVal(s[i + k]) >= 0
         THEN ParseStringBody(s, i + 6,
                  Append(acc, 4096 * HexVal(s[i + 2]) + 256 * HexVal(s[i + 3])
                              + 16 * HexVal(s[i + 4]) + HexVal(s[i + 5])), ctl)
         ELSE PFail
    ELSE IF s[i] < CTRL_LIMIT /\ ~ctl THEN PFail
    ELSE ParseStringBody(s, i + 1, Append(acc, s[i]), ctl)

ParseNumber(s, i) ==
    LET j0 == IF s[i] = MINUS THEN i + 1 ELSE i
        j1 == IF s[j0] = 48 THEN j0 + 1 ELSE SkipDigits(s, j0)
        hasFrac == j1 <= Len(s) /\ s[j1] = DOT
        j2 == IF hasFrac THEN SkipDigits(s, j1 + 1) ELSE j1
        hasExp == j2 <= Len(s) /\ s[j2] \in {101, 69}
        k == IF j2 + 1 <= Len(s) /\ s[j2 + 1] \in {PLUS, MINUS} THEN j2 + 2 ELSE j2 + 1
        j3 == IF hasExp THEN SkipDigits(s, k) ELSE j2
    IN  IF ~DigitAt(s, j0) THEN PFail
        ELSE IF hasFrac /\ ~DigitAt(s, j1 + 1) THEN PFail
        ELSE IF hasExp /\ ~DigitAt(s, k) THEN PFail
        ELSE POk(j3, NumVal(SubSeq(s, i, j3 - 1)))

RECURSIVE ParseValue(_, _, _)
RECURSIVE ParseElements(_, _, _, _)
RECURSIVE ParseMembers(_, _, _, _)

\* The value that starts at position i (no white space before it).
ParseValue(s, i, ctl) ==
    IF i > Len(s) THEN PFail
    ELSE IF s[i] = QUOTE THEN ParseStringBody(s, i + 1, << >>, ctl)
    ELSE IF s[i] = LBRACKET
    THEN LET j == SkipWs(s, i + 1)
         IN  IF j <= Len(s) /\ s[j] = RBRACKET THEN POk(j + 1, ArrVal(<< >>))
             ELSE ParseElements(s, j, << >>, ctl)
    ELSE IF s[i] = LBRACE
    THEN LET j == SkipWs(s, i + 1)
         IN  IF j <= Len(s) /\ s[j] = RBRACE THEN POk(j + 1, ObjVal(<< >>))
             ELSE ParseMembers(s, j, << >>, ctl)
    ELSE IF s[i] = MINUS \/ IsDigit(s[i]) THEN ParseNumber(s, i)
    ELSE IF Matches(s, i, << 116, 114, 117, 101 >>)
    THEN POk(i + 4, LitVal(<< 116, 114, 117, 101 >>))
    ELSE IF Matches(s, i, << 102, 97, 108, 115, 101 >>)
    THEN POk(i + 5, LitVal(<< 102, 97, 108, 115, 101 >>))
    ELSE IF Matches(s, i, << 110, 117, 108, 108 >>)
    THEN POk(i + 4, LitVal(<< 110, 117, 108, 108 >>))
    ELSE PFail

\* The elements of an array from position i, up to its closing bracket.
ParseElements(s, i, acc, ctl) ==
    LET r == ParseValue(s, i, ctl)
        j == SkipWs(s, r.pos)
    IN  IF ~r.ok THEN PFail
        ELSE IF j > Len(s) THEN PFail
        ELSE IF s[j] = COMMA THEN ParseElements(s, SkipWs(s, j + 1), Append(acc, r.val), ctl)
        ELSE IF s[j] = RBRACKET THEN POk(j + 1, ArrVal(Append(acc, r.val)))
        ELSE PFail

\* The members of an object from position i, up to its closing brace.
ParseMembers(s, i, acc, ctl) ==
    LET key == IF i <= Len(s) /\ s[i] = QUOTE THEN ParseStringBody(s, i + 1, << >>, ctl)
               ELSE PFail
        j == SkipWs(s, key.pos)
        r == IF j <= Len(s) /\ s[j] = COLON THEN ParseValue(s, SkipWs(s, j + 1), ctl)
             ELSE PFail
        j2 == SkipWs(s, r.pos)
    IN  IF ~key.ok THEN PFail
        ELSE IF ~r.ok THEN PFail
        ELSE IF j2 > Len(s) THEN PFail
        ELSE IF s[j2] = COMMA
        THEN ParseMembers(s, SkipWs(s, j2 + 1), acc \o << key.val, r.val >>, ctl)
        ELSE IF s[j2] = RBRACE THEN POk(j2 + 1, ObjVal(acc \o << key.val, r.val >>))
        ELSE PFail

\* A whole text as one JSON value; ok is FALSE on a syntax error.
ParseText(text, ctl) ==
    LET r == ParseValue(text, SkipWs(text, 1), ctl)
    IN  IF r.ok /\ SkipWs(text, r.pos) = Len(text) + 1 THEN r ELSE PFail

\* JSON.parse(text): ok is FALSE where JSON.parse throws a SyntaxError.
JSONParse(text) ==
    ParseText(text, FALSE)


(* ------------------------------------------------------------------ *)
(* Property access on a parsed item (QmdResult)                        *)
(* ------------------------------------------------------------------ *)

\* The value `undefined`.
Undefined ==
    [t |-> "u", s |-> << >>, a |-> << >>]

\* obj[key] of a parsed object: the last member named key, else undefined.
RECURSIVE GetFrom(_, _, _)
GetFrom(members, key, i) ==
    IF i < 1 THEN Undefined
    ELSE IF members[i].s = key THEN members[i + 1]
    ELSE GetFrom(members, key, i - 2)

\* item.key for the keys the modal reads (file, title, snippet, context):
\* undefined on strings, numbers, booleans and arrays.
Prop(item, key) ==
    IF item.t = "o" THEN GetFrom(item.a, key, Len(item.a) - 1) ELSE Undefined

\* A number literal whose value is 0 (falsy).
NumIsZero(s) ==
    \A i \in 1 .. Len(s) :
        (\A j \in 1 .. i : s[j] \notin {101, 69}) => s[i] \in {MINUS, DOT, 48}

\* ToBoolean of a parsed value, as `||` tests it.
IsTruthy(v) ==
    IF v.t = "s" THEN v.s # << >>
    ELSE IF v.t = "n" THEN ~NumIsZero(v.s)
    ELSE IF v.t = "l" THEN v.s = << 116, 114, 117, 101 >>
    ELSE v.t \in {"a", "o"}

KEY_FILE ==
    << 102, 105, 108, 101 >>

KEY_SNIPPET ==
    << 115, 110, 105, 112, 112, 101, 116 >>

KEY_CONTEXT ==
    << 99, 111, 110, 116, 101, 120, 116 >>

\* item.snippet || item.context || ""
SnippetSource(item) ==
    IF IsTruthy(Prop(item, KEY_SNIPPET)) THEN Prop(item, KEY_SNIPPET)
    ELSE IF IsTruthy(Prop(item, KEY_CONTEXT)) THEN Prop(item, KEY_CONTEXT)
    ELSE StrVal(<< >>)

\* One iteration of the loop of renderResults completes (no TypeError):
\* cleanFilePath(item.file) needs a string (rawPath.startsWith), and
\* cleanSnippet needs a string (raw.replace).  A null item, or one that is
\* no object, has no string `file`.
RowRenders(item) ==
    Prop(item, KEY_FILE).t = "s" /\ SnippetSource(item).t = "s"

\* The rows renderResults has attached its listeners to when it returns or
\* throws: the items before the first one whose iteration throws.
RECURSIVE RenderedRows(_)
RenderedRows(items) ==
    IF items = << >> THEN << >>
    ELSE IF RowRenders(Head(items)) THEN << Head(items) >> \o RenderedRows(Tail(items))
    ELSE << >>

(* ------------------------------------------------------------------ *)
(* Reference resolution                                                *)
(* ------------------------------------------------------------------ *)
StartsWith(s, p) ==
    Len(p) <= Len(s) /\ SubSeq(s, 1, Len(p)) = p

MD_EXT ==
    << DOT, 109, 100 >>

\* s.replace(/\.md$/, "")
StripMd(s) ==
    IF Len(s) >= 3 /\ SubSeq(s, Len(s) - 2, Len(s)) = MD_EXT
    THEN SubSeq(s, 1, Len(s) - 3)
    ELSE s

\* s.split("/").pop()
LastSegment(s) ==
    Slice(s, LastIndexOf(s, SLASH) + 1, Len(s))

\* String.prototype.toLowerCase on one code unit (Basic Latin letters).
LowerChar(c) ==
    IF c \in 65 .. 90 THEN c + 32 ELSE c

\* s.toLowerCase().replace(/\s+/g, "-")
RECURSIVE NormalizeFrom(_, _, _)
NormalizeFrom(s, i, prevSpace) ==
    IF i > Len(s) THEN << >>
    ELSE IF IsTrimSpace(s[i])
    THEN (IF prevSpace THEN << >> ELSE << MINUS >>) \o NormalizeFrom(s, i + 1, TRUE)
    ELSE << LowerChar(s[i]) >> \o NormalizeFrom(s, i + 1, FALSE)

normalizeForMatch(s) ==
    NormalizeFrom(s, 1, FALSE)

cleanFilePath(rawPath, collection) ==
    LET qmdPrefix == << 113, 109, 100, COLON, SLASH, SLASH >> \o collection \o << SLASH >>
        colPrefix == collection \o << SLASH >>
    IN  IF StartsWith(rawPath, qmdPrefix) THEN Slice(rawPath, Len(qmdPrefix), Len(rawPath))
        ELSE IF StartsWith(rawPath, colPrefix) THEN Slice(rawPath, Len(colPrefix), Len(rawPath))
        ELSE rawPath

\* The first loop of resolveVaultFile: the 1-based index of the first file
\* whose normalized basename is qmdFilename, or 0.
RECURSIVE FirstByName(_, _, _)
FirstByName(allFiles, i, qmdFilename) ==
    IF i > Len(allFiles) THEN 0
    ELSE IF normalizeForMatch(allFiles[i].basename) = qmdFilename THEN i
    ELSE FirstByName(allFiles, i + 1, qmdFilename)

\* The second loop: the first file whose normalized path is qmdFullNorm, or 0.
RECURSIVE FirstByPath(_, _, _)
FirstByPath(allFiles, i, qmdFullNorm) ==
    IF i > Len(allFiles) THEN 0
    ELSE IF normalizeForMatch(StripMd(allFiles[i].path)) = qmdFullNorm THEN i
    ELSE FirstByPath(allFiles, i + 1, qmdFullNorm)

\* resolveVaultFile without its filename pass: the full path alone decides.
resolveVaultFile_PathOnly(qmdPath, allFiles, collection) ==
    LET cleanPath == cleanFilePath(qmdPath, collection)
        qmdFilename == normalizeForMatch(StripMd(LastSegment(cleanPath)))
        qmdFullNorm == normalizeForMatch(StripMd(cleanPath))
        n2 == FirstByPath(allFiles, 1, qmdFullNorm)
    IN  IF qmdFilename = << >> THEN [found |-> FALSE, path |-> << >>]
        ELSE IF n2 > 0 THEN [found |-> TRUE, path |-> allFiles[n2].path]
        ELSE [found |-> FALSE, path |-> << >>]

\* resolveVaultFile with its two passes in the other order: the full path
\* is tried before the filename.
resolveVaultFile_PathFirst(qmdPath, allFiles, collection) ==
    LET cleanPath == cleanFilePath(qmdPath, collection)
        qmdFilename == normalizeForMatch(StripMd(LastSegment(cleanPath)))
        qmdFullNorm == normalizeForMatch(StripMd(cleanPath))
        n1 == FirstByName(allFiles, 1, qmdFilename)
        n2 == FirstByPath(allFiles, 1, qmdFullNorm)
    IN  IF qmdFilename = << >> THEN [found |-> FALSE, path |-> << >>]
        ELSE IF n2 > 0 THEN [found |-> TRUE, path |-> allFiles[n2].path]
        ELSE IF n1 > 0 THEN [found |-> TRUE, path |-> allFiles[n1].path]
        ELSE [found |-> FALSE, path |-> << >>]

\* resolveVaultFile: [found, path]; found = FALSE is the null result.
resolveVaultFile(qmdPath, allFiles, collection) ==
    LET cleanPath == cleanFilePath(qmdPath, collection)
        qmdFilename == normalizeForMatch(StripMd(LastSegment(cleanPath)))
        qmdFullNorm == normalizeForMatch(StripMd(cleanPath))
        n1 == FirstByName(allFiles, 1, qmdFilename)
        n2 == FirstByPath(allFiles, 1, qmdFullNorm)
    IN  IF qmdFilename = << >> THEN [found |-> FALSE, path |-> << >>]
        ELSE IF n1 > 0 THEN [found |-> TRUE, path |-> allFiles[n1].path]
        ELSE IF n2 > 0 THEN [found |-> TRUE, path |-> allFiles[n2].path]
        ELSE [found |-> FALSE, path |-> << >>]

(* ------------------------------------------------------------------ *)
(* Bounds and input domains of the session model                       *)
(* ------------------------------------------------------------------ *)

\* Searches one session may start.
MaxInvocations == 2

\* Characters between the brackets of a text given to sanitizeJson.
MaxBodyLen == 5

\* Chunks the stdout and stderr buffers of the running children may hold,
\* all together, at one time.
MaxBuffered == 1

\* What the user may edit inputEl.value to: " " and " q" (it starts as "").
InputValues ==
    { << SPACE >>, << SPACE, 113 >> }

\* What a child may write to stdout in one chunk:
\*   [{"file":"a"},{"file":"obsidian/b.md"}]
\*   log<LF>[{"file":"a","snippet":"p<LF>q"}]<LF>
\*   ["x"]      ] [      []
StdoutChunks ==
    { << 91, 123, 34, 102, 105, 108, 101, 34, 58, 34, 97, 34, 125, 44,
         123, 34, 102, 105, 108, 101, 34, 58, 34, 111, 98, 115, 105, 100, 105,
         97, 110, 47, 98, 46, 109, 100, 34, 125, 93 >>,
      << 108, 111, 103, 10, 91, 123, 34, 102, 105, 108, 101, 34, 58, 34,
         97, 34, 44, 34, 115, 110, 105, 112, 112, 101, 116, 34, 58, 34,
         112, 10, 113, 34, 125, 93, 10 >>,
      << 91, 34, 120, 34, 93 >>,
      << 93, 32, 91 >>,
      << 91, 93 >> }

\* What a child may write to stderr in one chunk: "not found<LF>".
StderrChunks ==
    { << 110, 111, 116, 32, 102, 111, 117, 110, 100, 10 >> }

\* err.message of an 'error' event: "spawn qmd ENOENT" or "".
ErrorMessages ==
    { << 115, 112, 97, 119, 110, 32, 113, 109, 100, 32, 69, 78, 79, 69, 78, 84 >>, << >> }

\* The code of a 'close' event: << >> is null, << n >> the number n.
ExitCodes ==
    { << >>, << 0 >>, << 1 >> }

\* app.vault.getMarkdownFiles(): N/a.md.
VaultFiles ==
    << [path |-> << 78, SLASH, 97, DOT, 109, 100 >>, basename |-> << 97 >>] >>

\* A Number as the settings hold it: an integer of up to MAX_EXACT_DIGITS
\* digits with its value ("int"), a finite integer of greater magnitude
\* ("large"), an infinity ("infinity"), or NaN ("nan").
JsInt(n) ==
    [kind |-> "int", v |-> n, neg |-> n < 0]

JsLarge(neg) ==
    [kind |-> "large", v |-> 0, neg |-> neg]

JsInfinity(neg) ==
    [kind |-> "infinity", v |-> 0, neg |-> neg]

JsNaN ==
    [kind |-> "nan", v |-> 0, neg |-> FALSE]

DEFAULT_RESULT_COUNT == 16

DEFAULT_SETTINGS ==
    [qmdPath |-> << 113, 109, 100 >>,
     collection |-> << 111, 98, 115, 105, 100, 105, 97, 110 >>,
     resultCount |-> JsInt(DEFAULT_RESULT_COUNT),
     extraPath |-> << >>,
     debugLogging |-> FALSE]

(* ------------------------------------------------------------------ *)
(* State                                                               *)
(* ------------------------------------------------------------------ *)
VARIABLES
    open,             \* the modal is open (onClose has not run)
    inputValue,       \* inputEl.value
    results,          \* this.results
    selectedIndex,    \* this.selectedIndex (0-based, -1 for none)
    status,           \* statusEl: style.display, the state shown, its text
    rows,             \* the rows of resultsEl that carry listeners, as items
    abortController,  \* this.abortController: 0 for null, else k, the
                      \* controller runSearch made for its k-th spawn
    aborted,          \* aborted[k]: signal.aborted of controller k
    child,            \* child[k]: the k-th spawned process: its phase ("none"
                      \* before the spawn, "running", "errored" once 'error'
                      \* was emitted, "closed" once 'close' was), the query
                      \* it was given, its buffers, whether kill() signalled it
    opened,           \* the paths given to workspace.openLinkText, in order
    notices,          \* the texts of the Notices shown, in order
    vault,            \* the markdown files of the vault
    settings,         \* plugin.settings
    sanIn,            \* the text a call of sanitizeJson is given
    sanOut,           \* what the call returned (<< >> before it returns)
    refIn,            \* the reference a call of resolveVaultFile is given
    refOut            \* << r >> once the call has returned r, << >> before

vars ==
    << open, inputValue, results, selectedIndex, status, rows, abortController,
       aborted, child, opened, notices, vault, settings, sanIn, sanOut,
       refIn, refOut >>

\* What no listener of the modal writes.
env ==
    << vault, settings, sanIn, sanOut, refIn, refOut >>

Invocations ==
    1 .. MaxInvocations

NoChild ==
    [phase |-> "none", query |-> << >>, stdoutChunks |-> << >>,
     stderrChunks |-> << >>, killed |-> FALSE]

\* The fields of the modal after onOpen, before any event.
InitModal ==
    /\ open = TRUE
    /\ inputValue = << >>
    /\ results = << >>
    /\ selectedIndex = -1
    /\ status = [display |-> "none", state |-> "none", text |-> << >>]
    /\ rows = << >>
    /\ abortController = 0
    /\ aborted = [k \in Invocations |-> FALSE]
    /\ child = [k \in Invocations |-> NoChild]
    /\ opened = << >>
    /\ notices = << >>

\* The modal after onOpen over the vault and the default settings.
InitSession ==
    /\ InitModal
    /\ vault = VaultFiles
    /\ settings = DEFAULT_SETTINGS

Init ==
    /\ InitSession
    /\ sanIn = << >>
    /\ sanOut = << >>
    /\ refIn = << >>
    /\ refOut = << >>

(* ------------------------------------------------------------------ *)
(* Status display                                                      *)
(* ------------------------------------------------------------------ *)
TEXT_SEARCHING ==
    << 83, 101, 97, 114, 99, 104, 105, 110, 103, 46, 46, 46 >>

TEXT_EMPTY ==
    << 78, 111, 32, 114, 101, 115, 117, 108, 116, 115, 32, 102, 111, 117, 110, 100, 46 >>

TEXT_ERROR_DEFAULT ==
    << 65, 110, 32, 101, 114, 114, 111, 114, 32, 111, 99, 99, 117, 114, 114, 101, 100, 46 >>

TEXT_EXITED ==
    << 81, 77, 68, 32, 101, 120, 105, 116, 101, 100, 32, 119, 105, 116, 104, 32,
       99, 111, 100, 101, 32 >>

TEXT_PARSE_FAILED ==
    << 70, 97, 105, 108, 101, 100, 32, 116, 111, 32, 112, 97, 114, 115, 101, 32,
       81, 77, 68, 32, 111, 117, 116, 112, 117, 116, 46 >>

TEXT_CHECK_CONSOLE ==
    << 32, 67, 104, 101, 99, 107, 32, 99, 111, 110, 115, 111, 108, 101, 32, 102,
       111, 114, 32, 100, 101, 116, 97, 105, 108, 115, 46 >>

TEXT_ENABLE_DEBUG ==
    << 32, 69, 110, 97, 98, 108, 101, 32, 100, 101, 98, 117, 103, 32, 108, 111,
       103, 103, 105, 110, 103, 32, 105, 110, 32, 115, 101, 116, 116, 105, 110,
       103, 115, 32, 102, 111, 114, 32, 100, 101, 116, 97, 105, 108, 115, 46 >>

TEXT_NOTICE ==
    << 67, 111, 117, 108, 100, 32, 110, 111, 116, 32, 114, 101, 115, 111, 108,
       118, 101, 32, 102, 105, 108, 101, 44, 32, 97, 116, 116, 101, 109, 112,
       116, 105, 110, 103, 32, 100, 105, 114, 101, 99, 116, 32, 111, 112, 101,
       110, 58, 32 >>

\* String(n) of an integer.
RECURSIVE DecString(_)
DecString(n) ==
    IF n < 0 THEN << MINUS >> \o DecString(0 - n)
    ELSE IF n < 10 THEN << 48 + n >>
    ELSE DecString(n \div 10) \o << 48 + (n % 10) >>

\* statusEl after showStatus(state, errorMsg); errorMsg << >> is a missing
\* or empty message.
showStatus(state, errorMsg) ==
    [display |-> "flex",
     state |-> state,
     text |-> IF state = "searching" THEN TEXT_SEARCHING
              ELSE IF state = "empty" THEN TEXT_EMPTY
              ELSE IF errorMsg # << >> THEN errorMsg
              ELSE TEXT_ERROR_DEFAULT]


(* ------------------------------------------------------------------ *)
(* Cancellation                                                        *)
(* ------------------------------------------------------------------ *)

\* CurrentAborted that looks at every controller made so far instead of
\* the current one.
CurrentAborted_Any ==
    \E k \in 1 .. abortController : aborted[k]

\* signal.aborted of this.abortController (FALSE while it is null).
CurrentAborted ==
    abortController # 0 /\ aborted[abortController]

\* this.abortController?.abort(): the signal of the current controller is
\* raised and its abort listener runs child.kill(), which signals the child
\* when it has not exited yet.
ChildAfterAbort ==
    IF abortController # 0 /\ ~aborted[abortController]
       /\ child[abortController].phase \in {"running", "errored"}
    THEN [child EXCEPT ![abortController].killed = TRUE]
    ELSE child

\* signal.aborted of every controller after this.abortController?.abort().
AbortedAfterAbort ==
    IF abortController = 0 THEN aborted ELSE [aborted EXCEPT ![abortController] = TRUE]

(* ------------------------------------------------------------------ *)
(* Search execution                                                    *)
(* ------------------------------------------------------------------ *)

\* runSearch without its this.abortController?.abort().
runSearch_NoAbort(query) ==
    IF query = << >>
    THEN UNCHANGED vars
    ELSE /\ abortController < MaxInvocations
         /\ abortController' = abortController + 1
         /\ results' = << >>
         /\ selectedIndex' = -1
         /\ rows' = << >>
         /\ status' = [display |-> "flex", state |-> "searching",
                       text |-> << 83, 101, 97, 114, 99, 104, 105, 110, 103, 46, 46, 46 >>]
         /\ child' = [child EXCEPT ![abortController + 1] =
                          [NoChild EXCEPT !.phase = "running", !.query = query]]
         /\ UNCHANGED << open, inputValue, aborted, opened, notices, env >>

\* runSearch without its `if (!query) return`.
runSearch_NoEmptyCheck(query) ==
    /\ abortController < MaxInvocations
    /\ aborted' = AbortedAfterAbort
    /\ abortController' = abortController + 1
    /\ results' = << >>
    /\ selectedIndex' = -1
    /\ rows' = << >>
    /\ status' = [display |-> "flex", state |-> "searching",
                  text |-> << 83, 101, 97, 114, 99, 104, 105, 110, 103, 46, 46, 46 >>]
    /\ child' = [ChildAfterAbort EXCEPT ![abortController + 1] =
                     [NoChild EXCEPT !.phase = "running", !.query = query]]
    /\ UNCHANGED << open, inputValue, opened, notices, env >>

\* runSearch(query).  The k-th call that spawns makes controller k and
\* child k; the stdout/stderr/error/close listeners of child k are the
\* actions ChildStdout, ChildStderr, ChildError and ChildClose below.
runSearch(query) ==
    IF query = << >>
    THEN UNCHANGED vars
    ELSE /\ abortController < MaxInvocations
         /\ aborted' = AbortedAfterAbort
         /\ abortController' = abortController + 1
         /\ results' = << >>
         /\ selectedIndex' = -1
         /\ rows' = << >>
         /\ status' = showStatus("searching", << >>)
         /\ child' = [ChildAfterAbort EXCEPT ![abortController + 1] =
                          [NoChild EXCEPT !.phase = "running", !.query = query]]
         /\ UNCHANGED << open, inputValue, opened, notices, env >>

\* onClose without its this.abortController?.abort().
onClose_NoAbort ==
    /\ UNCHANGED << aborted, child >>
    /\ rows' = << >>
    /\ open' = FALSE

\* onClose(): abort the current controller, empty contentEl.
onClose ==
    /\ aborted' = AbortedAfterAbort
    /\ child' = ChildAfterAbort
    /\ rows' = << >>
    /\ open' = FALSE

\* openResult whose fallback opens item.file as it is, with its collection
\* prefix and its extension.
openResult_RawFallback(item) ==
    IF Prop(item, KEY_FILE).t # "s"
    THEN UNCHANGED vars
    ELSE LET file == Prop(item, KEY_FILE).s
             resolved == resolveVaultFile(file, vault, settings.collection)
         IN  /\ opened' = Append(opened, IF resolved.found THEN resolved.path ELSE file)
             /\ notices' = IF resolved.found THEN notices
                           ELSE Append(notices, TEXT_NOTICE \o file)
             /\ onClose
             /\ UNCHANGED << inputValue, results, selectedIndex, status,
                             abortController, env >>

\* openResult(item).  An item without a string `file` (null, a primitive,
\* an array, results[i] past the end) makes cleanFilePath throw a TypeError
\* before anything is changed.
openResult(item) ==
    IF Prop(item, KEY_FILE).t # "s"
    THEN UNCHANGED vars
    ELSE LET file == Prop(item, KEY_FILE).s
             resolved == resolveVaultFile(file, vault, settings.collection)
             linkPath == StripMd(cleanFilePath(file, settings.collection))
         IN  /\ opened' = Append(opened, IF resolved.found THEN resolved.path ELSE linkPath)
             /\ notices' = IF resolved.found THEN notices
                           ELSE Append(notices, TEXT_NOTICE \o linkPath)
             /\ onClose
             /\ UNCHANGED << inputValue, results, selectedIndex, status,
                             abortController, env >>

\* results[selectedIndex], undefined past the end.
ItemAt(i) ==
    IF i >= 0 /\ i < Len(results) THEN results[i + 1] ELSE Undefined

(* ------------------------------------------------------------------ *)
(* Navigation                                                          *)
(* ------------------------------------------------------------------ *)

\* MovedIndex that leaves the list at both ends (no row selected) instead
\* of wrapping.
MovedIndex_Deselect(delta) ==
    IF selectedIndex < 0
    THEN (IF delta > 0 THEN 0 ELSE Len(results) - 1)
    ELSE LET a == selectedIndex + delta
         IN  IF a < 0 \/ a >= Len(results) THEN -1 ELSE a

\* this.selectedIndex after moveSelection(delta) on a non-empty results.
MovedIndex(delta) ==
    IF selectedIndex < 0
    THEN (IF delta > 0 THEN 0 ELSE Len(results) - 1)
    ELSE LET a == selectedIndex + delta
             b == IF a < 0 THEN Len(results) - 1 ELSE a
         IN  IF b >= Len(results) THEN 0 ELSE b

moveSelection(delta) ==
    /\ selectedIndex' = IF Len(results) = 0 THEN selectedIndex ELSE MovedIndex(delta)
    /\ UNCHANGED << open, inputValue, results, status, rows, abortController,
                    aborted, child, opened, notices, env >>

(* ------------------------------------------------------------------ *)
(* Input listeners (onOpen)                                            *)
(* ------------------------------------------------------------------ *)

\* 'focus' on the input.
InputFocus ==
    /\ open
    /\ selectedIndex' = -1
    /\ UNCHANGED << open, inputValue, results, status, rows, abortController,
                    aborted, child, opened, notices, env >>

\* 'input': the user has edited the text to v.
InputEdit(v) ==
    /\ open
    /\ inputValue' = v
    /\ selectedIndex' = -1
    /\ UNCHANGED << open, results, status, rows, abortController,
                    aborted, child, opened, notices, env >>

\* 'keydown' with Enter, not composing.
KeydownEnter ==
    /\ open
    /\ IF selectedIndex >= 0 /\ Len(results) > 0
       THEN openResult(ItemAt(selectedIndex))
       ELSE runSearch(Trim(inputValue))

KeydownArrowDown ==
    /\ open
    /\ moveSelection(1)

KeydownArrowUp ==
    /\ open
    /\ moveSelection(-1)

\* 'keydown' with Escape while a row is selected: the selection is dropped
\* and the event goes no further.
KeydownEscape ==
    /\ open
    /\ selectedIndex >= 0
    /\ selectedIndex' = -1
    /\ UNCHANGED << open, inputValue, results, status, rows, abortController,
                    aborted, child, opened, notices, env >>

\* The host closes the modal (Escape with no row selected, a click outside).
ModalClose ==
    /\ open
    /\ onClose
    /\ UNCHANGED << inputValue, results, selectedIndex, status, abortController,
                    opened, notices, env >>

(* ------------------------------------------------------------------ *)
(* Row listeners (renderResults)                                       *)
(* ------------------------------------------------------------------ *)

\* 'mouseenter' on the row of index i.
RowMouseEnter(i) ==
    /\ open
    /\ i < Len(rows)
    /\ selectedIndex' = i
    /\ UNCHANGED << open, inputValue, results, status, rows, abortController,
                    aborted, child, opened, notices, env >>

\* 'click' on the row of index i.
RowClick(i) ==
    /\ open
    /\ i < Len(rows)
    /\ openResult(rows[i + 1])

(* ------------------------------------------------------------------ *)
(* Child process listeners (runSearch)                                 *)
(* ------------------------------------------------------------------ *)

\* The chunks buffered by the children 1 .. k.
RECURSIVE BufferedUpTo(_)
BufferedUpTo(k) ==
    IF k = 0 THEN 0
    ELSE Len(child[k].stdoutChunks) + Len(child[k].stderrChunks) + BufferedUpTo(k - 1)

\* The process of child k has not delivered 'close' yet.
Alive(k) ==
    child[k].phase \in {"running", "errored"}

\* child.stdout 'data'.
ChildStdout(k, chunk) ==
    /\ Alive(k)
    /\ BufferedUpTo(MaxInvocations) < MaxBuffered
    /\ child' = [child EXCEPT ![k].stdoutChunks = Append(@, chunk)]
    /\ UNCHANGED << open, inputValue, results, selectedIndex, status, rows,
                    abortController, aborted, opened, notices, env >>

\* child.stderr 'data'.
ChildStderr(k, chunk) ==
    /\ Alive(k)
    /\ BufferedUpTo(MaxInvocations) < MaxBuffered
    /\ child' = [child EXCEPT ![k].stderrChunks = Append(@, chunk)]
    /\ UNCHANGED << open, inputValue, results, selectedIndex, status, rows,
                    abortController, aborted, opened, notices, env >>

\* The 'error' listener of child k.  A 'close' may still follow.
ChildError(k, message) ==
    /\ child[k].phase = "running"
    /\ child' = [child EXCEPT ![k].phase = "errored"]
    /\ status' = IF CurrentAborted THEN status ELSE showStatus("error", message)
    /\ UNCHANGED << open, inputValue, results, selectedIndex, rows,
                    abortController, aborted, opened, notices, env >>

\* The text shown when the try block of the 'close' listener throws.
ParseErrorText ==
    TEXT_PARSE_FAILED
      \o (IF settings.debugLogging THEN TEXT_CHECK_CONSOLE ELSE TEXT_ENABLE_DEBUG)

\* ExitErrorText without the trim of stderr.
ExitErrorText_Untrimmed(code, stderr) ==
    IF stderr # << >> THEN stderr
    ELSE << 81, 77, 68, 32, 101, 120, 105, 116, 101, 100, 32, 119, 105, 116, 104, 32,
            99, 111, 100, 101, 32 >> \o << 48 + code[1] >>

\* The text shown for an exit code that is neither 0 nor null.
ExitErrorText(code, stderr) ==
    IF Trim(stderr) # << >> THEN Trim(stderr) ELSE TEXT_EXITED \o DecString(code[1])

\* The 'close' listener past its aborted test: what it does to results, the
\* rows and the status for an exit code and the buffered output.
closeHandler(code, stdout, stderr) ==
    IF code # << 0 >> /\ code # << >>
    THEN /\ status' = showStatus("error", ExitErrorText(code, stderr))
         /\ UNCHANGED << results, rows >>
    ELSE LET jsonStart == IndexOf(stdout, LBRACKET)
             jsonEnd == LastIndexOf(stdout, RBRACKET)
             jsonStr == Slice(stdout, jsonStart, jsonEnd + 1)
             parsed == JSONParse(sanitizeJson(jsonStr))
             items == IF parsed.val.t = "a" THEN parsed.val.a ELSE << >>
         IN  IF jsonStart = -1 \/ jsonEnd = -1
             THEN /\ status' = showStatus("empty", << >>)
                  /\ UNCHANGED << results, rows >>
             ELSE IF ~parsed.ok
             THEN /\ status' = showStatus("error", ParseErrorText)
                  /\ UNCHANGED << results, rows >>
             ELSE IF Len(items) = 0
             THEN /\ results' = items
                  /\ status' = showStatus("empty", << >>)
                  /\ UNCHANGED rows
             ELSE /\ results' = items
                  /\ rows' = RenderedRows(items)
                  /\ status' = IF Len(RenderedRows(items)) = Len(items)
                               THEN [status EXCEPT !.display = "none"]
                               ELSE showStatus("error", ParseErrorText)

\* The 'close' listener of child k.  The buffers of a closed child are
\* unreachable and are dropped from the state.
ChildClose(k, code) ==
    /\ Alive(k)
    /\ child' = [child EXCEPT ![k].phase = "closed",
                              ![k].stdoutChunks = << >>,
                              ![k].stderrChunks = << >>]
    /\ IF CurrentAborted
       THEN UNCHANGED << results, rows, status >>
       ELSE closeHandler(code, ConcatChunks(child[k].stdoutChunks),
                         ConcatChunks(child[k].stderrChunks))
    /\ UNCHANGED << open, inputValue, selectedIndex, abortController, aborted,
                    opened, notices, env >>

(* ------------------------------------------------------------------ *)
(* Specification                                                       *)
(* ------------------------------------------------------------------ *)
Next ==
    \/ InputFocus
    \/ \E v \in InputValues : InputEdit(v)
    \/ KeydownEnter
    \/ KeydownArrowDown
    \/ KeydownArrowUp
    \/ KeydownEscape
    \/ ModalClose
    \/ \E i \in 0 .. Len(rows) - 1 : RowMouseEnter(i)
    \/ \E i \in 0 .. Len(rows) - 1 : RowClick(i)
    \/ \E k \in Invocations, chunk \in StdoutChunks : ChildStdout(k, chunk)
    \/ \E k \in Invocations, chunk \in StderrChunks : ChildStderr(k, chunk)
    \/ \E k \in Invocations, message \in ErrorMessages : ChildError(k, message)
    \/ \E k \in Invocations, code \in ExitCodes : ChildClose(k, code)

Spec ==
    Init /\ [][Next]_vars

(* ------------------------------------------------------------------ *)
(* sanitizeJson on its own                                             *)
(*                                                                     *)
(* The close listener gives sanitizeJson stdout.slice(jsonStart,       *)
(* jsonEnd + 1): a text that starts with "[" and ends with "]".  The   *)
(* texts here are every such text whose body is made of a quote, a     *)
(* backslash, a line feed, U+0001, the letter n and a comma.           *)
(* ------------------------------------------------------------------ *)
SanitizeAlphabet ==
    { QUOTE, BACKSLASH, LF, 1, 110, COMMA }

SanitizeBodies ==
    UNION { [1 .. n -> SanitizeAlphabet] : n \in 0 .. MaxBodyLen }

InitSanitize ==
    /\ InitSession
    /\ \E body \in SanitizeBodies : sanIn = << LBRACKET >> \o body \o << RBRACKET >>
    /\ sanOut = << >>
    /\ refIn = << >>
    /\ refOut = << >>

\* One call: sanitized = this.sanitizeJson(jsonStr).
CallSanitize ==
    /\ sanIn # << >>
    /\ sanOut = << >>
    /\ sanOut' = sanitizeJson(sanIn)
    /\ UNCHANGED << open, inputValue, results, selectedIndex, status, rows,
                    abortController, aborted, child, opened, notices, vault,
                    settings, sanIn, refIn, refOut >>

NextSanitize ==
    CallSanitize

SpecSanitize ==
    InitSanitize /\ [][NextSanitize]_vars


(* ------------------------------------------------------------------ *)
(* Properties                                                          *)
(* ------------------------------------------------------------------ *)

\* The buffered stdout and stderr of child k, as its close listener reads them.
StdoutOf(k) ==
    ConcatChunks(child[k].stdoutChunks)

StderrOf(k) ==
    ConcatChunks(child[k].stderrChunks)

\* This step delivers the 'close' event of child k.
ClosesNow(k) ==
    Alive(k) /\ child'[k].phase = "closed"

\* This step delivers the 'error' event of child k.
ErrorsNow(k) ==
    child[k].phase = "running" /\ child'[k].phase = "errored"

\* Child k is the child of the latest search, and the session has not
\* cancelled it.
IsCurrent(k) ==
    k = abortController /\ ~aborted[k]

\* C1: once a second search has been submitted while an earlier one is in
\* flight, the close event of the earlier one never writes results: results
\* changes only by being emptied or at the close event of the latest search.
C1_StaleCloseNeverWritesResults ==
    [][/\ \A k \in Invocations :
              (k < abortController /\ ClosesNow(k)) => results' = results
       /\ results' # results =>
              (results' = << >> \/ (abortController # 0 /\ ClosesNow(abortController)))
      ]_vars

\* C2: while the latest search has delivered neither close nor error, a
\* close or error event of a superseded search changes neither the status
\* region nor results nor selectedIndex, so the status stays "searching".
C2_SupersededEventsChangeNothing ==
    [][\A k \in Invocations :
           (/\ k < abortController
            /\ child[abortController].phase = "running"
            /\ (ClosesNow(k) \/ ErrorsNow(k)))
           => (status' = status /\ status.state = "searching"
               /\ results' = results /\ selectedIndex' = selectedIndex)
      ]_vars

\* C3: in every reachable state selectedIndex is -1 or a valid index of
\* results.
C3_SelectedIndexValid ==
    selectedIndex = -1 \/ (0 <= selectedIndex /\ selectedIndex < Len(results))

\* C4: a close event whose exit code is null changes neither the status
\* region nor results.
C4_NullExitIsSilent ==
    [][\A k \in Invocations :
           ChildClose(k, << >>) => (status' = status /\ results' = results)
      ]_vars

\* C5: once the session is closed, every child still alive has been sent
\* the termination signal, and no later event changes results or the
\* status region.
C5_ClosedSessionIsSilent ==
    /\ [](~open => \A k \in Invocations : Alive(k) => child[k].killed)
    /\ [][~open => (results' = results /\ status' = status)]_vars

\* C5 witness: the session was closed while its latest search was in
\* flight; that child was signalled, has since delivered its close event,
\* and the status region still shows "searching".
C5_Witness ==
    /\ ~open
    /\ abortController # 0
    /\ child[abortController].phase = "closed"
    /\ child[abortController].killed
    /\ status.state = "searching"

\* C6: at most one child is alive with its cancellation signal not raised,
\* and every search before the latest has had its signal raised and, if its
\* process is still alive, has been sent the termination signal.
C6_AtMostOneActive ==
    /\ Cardinality({k \in Invocations : Alive(k) /\ ~aborted[k]}) <= 1
    /\ \A k \in Invocations :
           k < abortController => (aborted[k] /\ (Alive(k) => child[k].killed))

\* C6 witness: two processes are alive at once, the earlier one cancelled.
C6_Witness ==
    /\ abortController = 2
    /\ child[1].phase = "running"
    /\ child[2].phase = "running"
    /\ aborted[1]
    /\ ~aborted[2]

\* A text with no "[" ... "]" pair: no "[", no "]", or every "]" before the
\* first "[".
NoArrayPair(text) ==
    \/ IndexOf(text, LBRACKET) = -1
    \/ LastIndexOf(text, RBRACKET) = -1
    \/ LastIndexOf(text, RBRACKET) < IndexOf(text, LBRACKET)

\* C7: when the current search exits with code 0 and its stdout has no
\* "[" ... "]" pair, the outcome is the "no results" status with results
\* empty.
C7_NoArrayMeansNoResults ==
    [][\A k \in Invocations :
           (IsCurrent(k) /\ NoArrayPair(StdoutOf(k)) /\ ChildClose(k, << 0 >>))
           => (status' = [display |-> "flex", state |-> "empty", text |-> TEXT_EMPTY]
               /\ results' = << >>)
      ]_vars

\* C8: for every bracketed text that is a JSON array once literal control
\* characters are allowed inside its strings, parsing the sanitized text
\* succeeds and gives the value of the text with each such character
\* standing for itself (what its correctly escaped form parses to); and a
\* text that is valid JSON already is returned unchanged.
C8_SanitizeThenParse ==
    sanOut # << >> =>
        /\ ParseText(sanIn, TRUE).ok =>
               (JSONParse(sanOut).ok /\ JSONParse(sanOut).val = ParseText(sanIn, TRUE).val)
        /\ JSONParse(sanIn).ok => sanOut = sanIn

\* C8 witness: a text with an escape sequence and a literal control
\* character in a string, which JSON.parse rejects, has been sanitized.
C8_Witness ==
    /\ sanOut # << >>
    /\ sanOut # sanIn
    /\ ParseText(sanIn, TRUE).ok
    /\ ~JSONParse(sanIn).ok
    /\ \E i \in 1 .. Len(sanIn) : sanIn[i] = BACKSLASH
    /\ \E i \in 1 .. Len(sanIn) : sanIn[i] = 1

OpenTarget(item) ==
    LET file == Prop(item, KEY_FILE).s
        resolved == resolveVaultFile(file, vault, settings.collection)
    IN  IF resolved.found THEN resolved.path
        ELSE StripMd(cleanFilePath(file, settings.collection))

\* selectedIndex is an index of results.
ValidSelection ==
    0 <= selectedIndex /\ selectedIndex < Len(results)

\* The invocations spawned so far.
Spawned ==
    { k \in Invocations : child[k].phase # "none" }

\* C11: Enter does exactly one of two things.  With selectedIndex a valid
\* index it opens results[selectedIndex] (in every such state of an open
\* session Enter can, and does, hand that entry's target to the workspace)
\* and spawns nothing; with selectedIndex = -1 it submits the trimmed input
\* as a fresh query and opens nothing; it never both opens and spawns.
C11_ConfirmOpensOrSubmits ==
    /\ []((open /\ ValidSelection)
             => ENABLED (KeydownEnter /\ Len(opened') = Len(opened) + 1))
    /\ [][KeydownEnter =>
             /\ ValidSelection =>
                    /\ opened' = Append(opened, OpenTarget(results[selectedIndex + 1]))
                    /\ Spawned' = Spawned
             /\ selectedIndex = -1 =>
                    /\ opened' = opened
                    /\ Trim(inputValue) # << >> =>
                           /\ Spawned' = Spawned \cup {abortController + 1}
                           /\ child'[abortController + 1].query = Trim(inputValue)
             /\ ~(opened' # opened /\ Spawned' # Spawned)
        ]_vars

\* C12: an Enter that submits an empty or whitespace-only input (no row is
\* selected, the trimmed input is empty) changes nothing: results,
\* selectedIndex, the status region and the rows stay, nothing is spawned
\* or opened, and the invocation in flight is neither aborted nor replaced.
C12_EmptySubmitIsNoOp ==
    [][(/\ KeydownEnter
        /\ ~(selectedIndex >= 0 /\ Len(results) > 0)
        /\ Trim(inputValue) = << >>)
           => UNCHANGED << results, selectedIndex, status, rows, abortController,
                           aborted, child, opened, notices >>
      ]_vars

\* C12 witness: the input holds one space, no row is selected, and the
\* current invocation is running and not aborted: the state in which Enter
\* submits a whitespace-only query over a search in flight.
C12_Witness ==
    /\ open
    /\ inputValue = << SPACE >>
    /\ selectedIndex = -1
    /\ abortController # 0
    /\ child[abortController].phase = "running"
    /\ ~aborted[abortController]
    /\ status.state = "searching"
    /\ ENABLED KeydownEnter

(* ------------------------------------------------------------------ *)
(* resolveVaultFile on its own                                         *)
(*                                                                     *)
(* A reference is a prefix ("", "qmd://obsidian/" or "obsidian/"), a   *)
(* directory, a base name and an extension ("" or ".md"), joined.  The *)
(* vault is a list of distinct markdown files.                         *)
(* ------------------------------------------------------------------ *)

\* Files of one vault in the runs of resolveVaultFile on its own.
MaxVaultFiles == 2

\* A TFile of the vault: basename is the file name without its extension.
VaultFile(path) ==
    [path |-> path, basename |-> StripMd(LastSegment(path))]

\* a.md   N/a.md   M/A.md   N/A  b.md   M/a-b.md   N/c.md
VaultPaths ==
    { << 97, DOT, 109, 100 >>,
      << 78, SLASH, 97, DOT, 109, 100 >>,
      << 77, SLASH, 65, DOT, 109, 100 >>,
      << 78, SLASH, 65, SPACE, SPACE, 98, DOT, 109, 100 >>,
      << 77, SLASH, 97, MINUS, 98, DOT, 109, 100 >>,
      << 78, SLASH, 99, DOT, 109, 100 >> }

\* getMarkdownFiles(): every list of up to MaxVaultFiles distinct files.
Vaults ==
    { v \in UNION { [1 .. n -> { VaultFile(p) : p \in VaultPaths }] : n \in 0 .. MaxVaultFiles } :
        \A i, j \in 1 .. Len(v) : i # j => v[i].path # v[j].path }

\* "", "qmd://obsidian/", "obsidian/"
RefPrefixes ==
    { << >>,
      << 113, 109, 100, COLON, SLASH, SLASH >> \o DEFAULT_SETTINGS.collection \o << SLASH >>,
      DEFAULT_SETTINGS.collection \o << SLASH >> }

\* "", "N/", "m/"
RefDirs ==
    { << >>, << 78, SLASH >>, << 109, SLASH >> }

\* "a", "A", "a b", "c", ""
RefBases ==
    { << 97 >>, << 65 >>, << 97, SPACE, 98 >>, << 99 >>, << >> }

RefExts ==
    { << >>, MD_EXT }

\* item.file of a reference.
RawRef(ref) ==
    ref.prefix \o ref.dir \o ref.base \o ref.ext

InitResolve ==
    /\ InitModal
    /\ settings = DEFAULT_SETTINGS
    /\ vault \in Vaults
    /\ refIn \in [prefix : RefPrefixes, dir : RefDirs, base : RefBases, ext : RefExts]
    /\ refOut = << >>
    /\ sanIn = << >>
    /\ sanOut = << >>

\* One call: resolved = this.resolveVaultFile(item.file).
CallResolve ==
    /\ refOut = << >>
    /\ refOut' = << resolveVaultFile(RawRef(refIn), vault, settings.collection) >>
    /\ UNCHANGED << open, inputValue, results, selectedIndex, status, rows,
                    abortController, aborted, child, opened, notices, vault,
                    settings, sanIn, sanOut, refIn >>

NextResolve ==
    CallResolve

SpecResolve ==
    InitResolve /\ [][NextResolve]_vars

\* Lowercase with each whitespace run replaced by one hyphen, position by
\* position: a whitespace character that follows another one is dropped,
\* any other whitespace character becomes a hyphen, a letter its lowercase.
KeptPositions(s) ==
    { i \in 1 .. Len(s) : ~(IsTrimSpace(s[i]) /\ i > 1 /\ IsTrimSpace(s[i - 1])) }

NormalizedName(s) ==
    [k \in 1 .. Cardinality(KeptPositions(s)) |->
        LET i == CHOOSE x \in KeptPositions(s) :
                     Cardinality({ y \in KeptPositions(s) : y < x }) = k - 1
        IN  IF IsTrimSpace(s[i]) THEN MINUS
            ELSE IF s[i] \in 65 .. 90 THEN s[i] + 32
            ELSE s[i]]

\* The entries of the vault whose base name is the reference's, normalized.
BaseNameMatches ==
    { i \in 1 .. Len(vault) :
        NormalizedName(vault[i].basename) = NormalizedName(refIn.base) }

\* The entries whose full path without extension is the reference's path
\* (without prefix and extension), normalized.
FullPathMatches ==
    { i \in 1 .. Len(vault) :
        NormalizedName(StripMd(vault[i].path)) = NormalizedName(refIn.dir \o refIn.base) }

\* C13: when exactly one entry of the vault has the reference's normalized
\* base name, resolveVaultFile returns that entry, whatever the prefix, the
\* extension, the letter case and the directory of either.
C13_UniqueBaseNameResolves ==
    (refOut # << >> /\ Cardinality(BaseNameMatches) = 1)
        => \E i \in BaseNameMatches :
               refOut[1] = [found |-> TRUE, path |-> vault[i].path]

\* C13 witness: the reference "qmd://obsidian/m/a b.md" has resolved to
\* N/A  b.md, the one entry with its base name, in another directory and
\* in another letter case.
C13_Witness ==
    /\ refOut # << >>
    /\ Cardinality(BaseNameMatches) = 1
    /\ Len(vault) = 2
    /\ refIn.prefix # << >>
    /\ refIn.dir = << 109, SLASH >>
    /\ refIn.base = << 97, SPACE, 98 >>
    /\ refIn.ext = MD_EXT
    /\ refOut[1].found
    /\ refOut[1].path = << 78, SLASH, 65, SPACE, SPACE, 98, DOT, 109, 100 >>

\* C14: when two or more entries of the vault share the reference's
\* normalized base name, the full path decides: resolveVaultFile returns
\* the entry whose normalized full path is the reference's, and null when
\* no entry's full path matches.
C14_DuplicateBaseNamesDecidedByPath ==
    (refOut # << >> /\ Cardinality(BaseNameMatches) >= 2)
        => IF FullPathMatches = { }
           THEN ~refOut[1].found
           ELSE \E i \in FullPathMatches :
                    refOut[1] = [found |-> TRUE, path |-> vault[i].path]

\* What a step that opens item must do: one more openLinkText, on the path
\* of the resolved entry with no notice, or, the reconciler having returned
\* null, on the reference without its collection prefix and its .md with
\* one notice; and the modal is closed.
OpensOnce(item) ==
    LET file == Prop(item, KEY_FILE).s
        resolved == resolveVaultFile(file, vault, settings.collection)
        bare == StripMd(cleanFilePath(file, settings.collection))
    IN  /\ opened' = Append(opened, IF resolved.found THEN resolved.path ELSE bare)
        /\ notices' = IF resolved.found THEN notices
                      ELSE Append(notices, TEXT_NOTICE \o bare)
        /\ ~open'

\* C15: opening the chosen result (Enter on the selected entry, or a click
\* on a row) issues exactly one open action: on the resolved entry's path
\* without a notice when the reconciler returns an entry, on the reference
\* stripped of its collection prefix and '.md' together with one notice
\* when it returns null; the session is closed afterwards in both cases.
C15_OpenFallsBackWithNotice ==
    [][/\ (KeydownEnter /\ ValidSelection
             /\ Prop(results[selectedIndex + 1], KEY_FILE).t = "s")
          => OpensOnce(results[selectedIndex + 1])
       /\ \A i \in 0 .. Len(rows) - 1 :
              (RowClick(i) /\ Prop(rows[i + 1], KEY_FILE).t = "s")
                 => OpensOnce(rows[i + 1])
      ]_vars

\* C15 witness: the entry "obsidian/b.md", which no vault file matches, was
\* opened: one open action on "b", one notice, the modal closed.
C15_Witness ==
    /\ ~open
    /\ opened = << << 98 >> >>
    /\ Len(notices) = 1
    /\ \E i \in 1 .. Len(results) :
           /\ Prop(results[i], KEY_FILE).s
                 = << 111, 98, 115, 105, 100, 105, 97, 110, 47, 98, 46, 109, 100 >>
           /\ ~resolveVaultFile(Prop(results[i], KEY_FILE).s, vault, settings.collection).found

(* ------------------------------------------------------------------ *)
(* Settings tab                                                        *)
(* ------------------------------------------------------------------ *)

\* Significant digits up to which the value of a digit string is kept.
MAX_EXACT_DIGITS == 9

\* Decimal digits of the integer part of the largest finite Number
\* (1.7976931348623157e308).
DOUBLE_MAX_DIGITS == 309

\* The first nine digits, and the next nine, of 2^1024 - 2^970, the least
\* integer that no finite Number approximates.
DOUBLE_LIMIT_HI == 179769313

DOUBLE_LIMIT_LO == 486231580

\* The length of the longest prefix of s made of decimal digits.
DigitsPrefixLen(s) ==
    IF \A i \in 1 .. Len(s) : IsDigit(s[i]) THEN Len(s)
    ELSE (CHOOSE i \in 1 .. Len(s) :
              ~IsDigit(s[i]) /\ \A j \in 1 .. i - 1 : IsDigit(s[j])) - 1

\* The number of zeros at the head of the n digits of s.
LeadingZeros(s, n) ==
    IF \A i \in 1 .. n : s[i] = 48 THEN n
    ELSE (CHOOSE i \in 1 .. n : s[i] # 48 /\ \A j \in 1 .. i - 1 : s[j] = 48) - 1

\* The value of at most MAX_EXACT_DIGITS digits.
RECURSIVE DecValue(_)
DecValue(digits) ==
    IF digits = << >> THEN 0
    ELSE DecValue(SubSeq(digits, 1, Len(digits) - 1)) * 10 + (digits[Len(digits)] - 48)

\* parseInt(value, 10): leading white space is skipped, a sign is read, and
\* the longest prefix of digits is the number; NaN without a digit.  The
\* mathematical value is approximated by a Number: an integer above the
\* largest finite Number gives an infinity.  Past the 20th significant digit
\* an implementation may round as it sees fit; roundsUp decides the one case
\* that leaves open here, a 309-digit integer that starts with the first 18
\* digits of the limit.
ParseInt10(value, roundsUp) ==
    LET t == TrimStart(value)
        signed == t # << >> /\ t[1] \in {PLUS, MINUS}
        neg == t # << >> /\ t[1] = MINUS
        body == IF signed THEN Tail(t) ELSE t
        n == DigitsPrefixLen(body)
        z == LeadingZeros(body, n)
        sig == n - z
        hi == DecValue(SubSeq(body, z + 1, z + 9))
        lo == DecValue(SubSeq(body, z + 10, z + 18))
    IN  IF n = 0 THEN JsNaN
        ELSE IF sig <= MAX_EXACT_DIGITS
        THEN JsInt((IF neg THEN -1 ELSE 1) * DecValue(SubSeq(body, z + 1, n)))
        ELSE IF sig < DOUBLE_MAX_DIGITS THEN JsLarge(neg)
        ELSE IF sig > DOUBLE_MAX_DIGITS THEN JsInfinity(neg)
        ELSE IF hi < DOUBLE_LIMIT_HI \/ (hi = DOUBLE_LIMIT_HI /\ lo < DOUBLE_LIMIT_LO)
        THEN JsLarge(neg)
        ELSE IF hi > DOUBLE_LIMIT_HI \/ lo > DOUBLE_LIMIT_LO THEN JsInfinity(neg)
        ELSE IF roundsUp THEN JsInfinity(neg)
        ELSE JsLarge(neg)

\* isNaN(n)
IsNaN(n) ==
    n.kind = "nan"

\* n < 1
LessThanOne(n) ==
    IF n.kind = "int" THEN n.v < 1
    ELSE IF n.kind = "nan" THEN FALSE
    ELSE n.neg

\* value.trim() || fallback
TrimOr(value, fallback) ==
    IF Trim(value) # << >> THEN Trim(value) ELSE fallback

\* What the user may type into the text fields of the binary path, the
\* collection name and the extra directory: "", " ", " v ".
TextInputs ==
    { << >>, << SPACE >>, << SPACE, 118, SPACE >> }

\* What the user may type into the field of the result count: "", "abc",
\* "0", "-5", " 7x", "12", "1234567890", and 310 nines.
CountInputs ==
    { << >>, << 97, 98, 99 >>, << 48 >>, << MINUS, 53 >>, << SPACE, 55, 120 >>,
      << 49, 50 >>, << 49, 50, 51, 52, 53, 54, 55, 56, 57, 48 >>,
      [i \in 1 .. DOUBLE_MAX_DIGITS + 1 |-> 57] }

SettingsUnchanged ==
    UNCHANGED << open, inputValue, results, selectedIndex, status, rows,
                 abortController, aborted, child, opened, notices, vault,
                 sanIn, sanOut, refIn, refOut >>

\* onChange of "Binary path".
SetQmdPath(value) ==
    /\ settings' = [settings EXCEPT !.qmdPath = TrimOr(value, DEFAULT_SETTINGS.qmdPath)]
    /\ SettingsUnchanged

\* onChange of "Collection name".
SetCollection(value) ==
    /\ settings' = [settings EXCEPT !.collection = TrimOr(value, DEFAULT_SETTINGS.collection)]
    /\ SettingsUnchanged

\* onChange of "Additional directory to search for bun binary".
SetExtraPath(value) ==
    /\ settings' = [settings EXCEPT !.extraPath = value]
    /\ SettingsUnchanged

\* onChange of "Max results".
SetResultCount(value) ==
    /\ \E roundsUp \in BOOLEAN :
           LET n == ParseInt10(value, roundsUp)
           IN  settings' = [settings EXCEPT !.resultCount =
                                IF IsNaN(n) \/ LessThanOne(n)
                                THEN JsInt(DEFAULT_RESULT_COUNT) ELSE n]
    /\ SettingsUnchanged

\* onChange of "Debug logging".
SetDebugLogging(value) ==
    /\ settings' = [settings EXCEPT !.debugLogging = value]
    /\ SettingsUnchanged

NextSettings ==
    \/ \E value \in TextInputs : SetQmdPath(value)
    \/ \E value \in TextInputs : SetCollection(value)
    \/ \E value \in TextInputs : SetExtraPath(value)
    \/ \E value \in CountInputs : SetResultCount(value)
    \/ \E value \in BOOLEAN : SetDebugLogging(value)

SpecSettings ==
    Init /\ [][NextSettings]_vars

\* A Number that is an integer and at least 1.
IsIntegerAtLeastOne(n) ==
    \/ n.kind = "int" /\ n.v >= 1
    \/ n.kind = "large" /\ ~n.neg

\* C16: after any sequence of writes through the settings handlers the
\* stored result count is an integer >= 1 and the stored binary path and
\* collection name are non-blank; a write of a non-numeric count or of a
\* count below 1 stores 16, a write of a blank path or collection stores
\* "qmd" or "obsidian".
C16_SettingsStayValid ==
    /\ [](/\ IsIntegerAtLeastOne(settings.resultCount)
          /\ Trim(settings.qmdPath) # << >>
          /\ Trim(settings.collection) # << >>)
    /\ [][/\ \A value \in CountInputs :
                 (SetResultCount(value)
                    /\ \E r \in BOOLEAN : LET n == ParseInt10(value, r)
                                          IN  IsNaN(n) \/ LessThanOne(n))
                 => settings'.resultCount = JsInt(16)
          /\ \A value \in TextInputs :
                 (SetQmdPath(value) /\ Trim(value) = << >>)
                 => settings'.qmdPath = << 113, 109, 100 >>
          /\ \A value \in TextInputs :
                 (SetCollection(value) /\ Trim(value) = << >>)
                 => settings'.collection = << 111, 98, 115, 105, 100, 105, 97, 110 >>
        ]_vars

(* ------------------------------------------------------------------ *)
(* The session under processes that terminate                          *)
(* ------------------------------------------------------------------ *)

\* The first event by which the running process of child k ends or fails:
\* its 'error', or its 'close'.
ChildEnds(k) ==
    /\ child[k].phase = "running"
    /\ \/ \E message \in ErrorMessages : ChildError(k, message)
       \/ \E code \in ExitCodes : ChildClose(k, code)

\* Every spawned process eventually delivers its 'error' or its 'close'.
SpecLive ==
    Init /\ [][Next]_vars /\ \A k \in Invocations : WF_vars(ChildEnds(k))

\* The status region shows "Searching...".
Searching ==
    status.display = "flex" /\ status.state = "searching"

\* C17: with processes that deliver their close or error event, an open
\* session that shows 'searching' eventually shows results, 'no results'
\* or an error, or is closed; a newer submit may renew 'searching' but the
\* session does not stay in it after the last submit.
C17_SearchingEnds ==
    (open /\ Searching) ~> (~open \/ ~Searching)

\* C17 witness: the second submit superseded the first, its process has
\* closed, and the open session has left 'searching' for 'no results'.
C17_Witness ==
    /\ open
    /\ abortController = 2
    /\ aborted[1]
    /\ ~aborted[2]
    /\ child[2].phase = "closed"
    /\ status.state = "empty"
    /\ status.display = "flex"

(* ------------------------------------------------------------------ *)
(* Control characters inside strings                                   *)
(* ------------------------------------------------------------------ *)

\* The 0-based index p of text lies inside a quoted string: the scan of
\* sanitizeJson reaches p with inString set, or passes over p as the
\* character that follows a backslash inside a string.
InString(text, p) ==
    LET before == SanitizeLoop(text, 0, p, FALSE)
    IN  before.i > p \/ before.inString

\* The text in which every control character of raw[lo .. hi - 1] (0-based)
\* that lies inside a quoted string is replaced by its escape and every
\* other character stands unchanged, in order.
RECURSIVE Replaced(_, _, _)
Replaced(raw, lo, hi) ==
    IF lo >= hi THEN << >>
    ELSE IF hi - lo = 1
    THEN IF InString(raw, lo) /\ raw[lo + 1] < CTRL_LIMIT
         THEN EscapeControl(raw[lo + 1])
         ELSE << raw[lo + 1] >>
    ELSE Replaced(raw, lo, (lo + hi) \div 2) \o Replaced(raw, (lo + hi) \div 2, hi)

\* C18: the output of sanitizeJson has no control character (code < 0x20)
\* at a position inside a quoted string, and it is the input with each
\* such character replaced by its escape and every other character copied
\* unchanged and in order.
C18_NoRawControlInStrings ==
    sanOut # << >> =>
        /\ \A p \in 0 .. Len(sanOut) - 1 :
               InString(sanOut, p) => sanOut[p + 1] >= CTRL_LIMIT
        /\ sanOut = Replaced(sanIn, 0, Len(sanIn))

(* ------------------------------------------------------------------ *)
(* Parse failures                                                      *)
(* ------------------------------------------------------------------ *)

\* The status after the catch block of the close listener has run.
ParseFailedStatus ==
    showStatus("error", ParseErrorText)

\* C19: whenever a close listener handles its output and ends in the
\* "Failed to parse QMD output." error status, results is empty afterwards.
C19_ParseFailureLeavesNoResults ==
    [][\A k \in Invocations, code \in ExitCodes :
           (ChildClose(k, code) /\ ~CurrentAborted /\ status' = ParseFailedStatus)
           => results' = << >>
      ]_vars

(* ------------------------------------------------------------------ *)
(* The full-path pass of resolveVaultFile                              *)
(* ------------------------------------------------------------------ *)

\* The first entry, in vault order, with the reference's normalized base
\* name (0 when there is none).
FirstBaseNameMatch ==
    IF BaseNameMatches = { } THEN 0
    ELSE CHOOSE i \in BaseNameMatches : \A j \in BaseNameMatches : i <= j

\* C20: the full-path pass of resolveVaultFile never decides the result.
\* Every entry that matches the reference on normalized full path also
\* matches it on normalized base name; resolveVaultFile returns an entry
\* if and only if a base-name match exists, and the entry returned is the
\* first base-name match in vault order.
C20_FullPathPassNeverDecides ==
    refOut # << >> =>
        /\ FullPathMatches \subseteq BaseNameMatches
        /\ refOut[1].found <=> BaseNameMatches # { }
        /\ refOut[1].found => refOut[1].path = vault[FirstBaseNameMatch].path

\* C20 witness: a reference has resolved in a vault where an entry matches
\* it on full path and an earlier, different entry matches it on base name
\* only.
C20_Witness ==
    /\ refOut # << >>
    /\ refOut[1].found
    /\ FullPathMatches # { }
    /\ FirstBaseNameMatch \notin FullPathMatches
    /\ refOut[1].path = vault[FirstBaseNameMatch].path

====
